---- MODULE Spec2Model ----
(***************************************************************************)
(* Model of drivers/fpga/dfl-fme-perf.c: the FME performance-counter PMU.  *)
(*                                                                         *)
(* Registers are modelled as records of their bit fields; a mask of the    *)
(* driver (GENMASK_ULL / BIT_ULL) is the name of the field it selects and  *)
(* the number of bits it covers.  64-bit arithmetic is modular arithmetic  *)
(* over a word of WordBits bits; the 48- and 60-bit counter fields are     *)
(* scaled down with it (Cntr48Bits < Cntr60Bits < WordBits).               *)
(***************************************************************************)
EXTENDS Integers, Sequences, FiniteSets, TLC

(***************************************************************************)
(* Bounds of the model.                                                    *)
(***************************************************************************)
NProcs == 2
WordBits == 4
Cntr48Bits == 2
Cntr60Bits == 3
MaxReads == 2
MaxStarts == 1

Procs == 1..NProcs
Word == 2 ^ WordBits
U64(x) == x % Word

(***************************************************************************)
(* Program constants.                                                      *)
(***************************************************************************)
PERF_TIMEOUT == 30
PERF_MAX_PORT_NUM == 1

FME_EVTYPE_BASIC == 0
FME_EVTYPE_CACHE == 1
FME_EVTYPE_FABRIC == 2
FME_EVTYPE_VTD == 3
FME_EVTYPE_VTD_SIP == 4
FME_EVTYPE_MAX == FME_EVTYPE_VTD_SIP
FME_PORTID_ROOT == 255

FAB_PORT_FILTER_DISABLE == 0
FAB_PORT_FILTER_ENABLE == 1
CACHE_CHANNEL_RD == 0
CACHE_CHANNEL_WR == 1
BASIC_EVNT_CLK == 0

\* masks of the configuration word (attr.config): shift and width in bits
FME_EVENT_MASK == [lo |-> 0, bits |-> 12]
\* variant: the type is taken from two bits of the configuration word
FME_EVTYPE_MASK_narrow == [lo |-> 12, bits |-> 2]
FME_EVTYPE_MASK == [lo |-> 12, bits |-> 4]
FME_PORTID_MASK == [lo |-> 16, bits |-> 8]

\* masks of the device registers: the field and its width in bits
CACHE_CTRL_EVNT == [field |-> "evnt", bits |-> 4]
CACHE_CHANNEL_SEL == [field |-> "channel", bits |-> 1]
CACHE_CNTR_EVNT_CNTR == [field |-> "cntr", bits |-> Cntr48Bits]
CACHE_CNTR_EVNT == [field |-> "evnt", bits |-> 4]
FAB_CTRL_EVNT == [field |-> "evnt", bits |-> 4]
FAB_PORT_ID == [field |-> "port_id", bits |-> 2]
FAB_PORT_FILTER == [field |-> "filter", bits |-> 1]
FAB_CNTR_EVNT_CNTR == [field |-> "cntr", bits |-> Cntr60Bits]
FAB_CNTR_EVNT == [field |-> "evnt", bits |-> 4]
VTD_CTRL_EVNT == [field |-> "evnt", bits |-> 4]
VTD_CNTR_EVNT_CNTR == [field |-> "cntr", bits |-> Cntr48Bits]
VTD_CNTR_EVNT == [field |-> "evnt", bits |-> 4]
VTD_SIP_CTRL_EVNT == [field |-> "evnt", bits |-> 4]
VTD_SIP_CNTR_EVNT_CNTR == [field |-> "cntr", bits |-> Cntr48Bits]
VTD_SIP_CNTR_EVNT == [field |-> "evnt", bits |-> 4]

\* FIELD_GET on the configuration word, an integer
CFG_GET(mask, config) == (config \div (2 ^ mask.lo)) % (2 ^ mask.bits)
\* FIELD_GET / FIELD_PREP / "v &= ~mask; v |= FIELD_PREP(mask, val)" on a register
FIELD_GET(mask, v) == v[mask.field]
FIELD_PREP(mask, val) == val % (2 ^ mask.bits)
FIELD_SET(v, mask, val) == [v EXCEPT ![mask.field] = FIELD_PREP(mask, val)]

(***************************************************************************)
(* The event catalog (fme_perf_*_events), in table order.                  *)
(***************************************************************************)
FME_EVENT(id, type, port, data) ==
    [event_id |-> id, event_type |-> type, is_port_event |-> port, data |-> data]

fme_perf_basic_events == << FME_EVENT(BASIC_EVNT_CLK, FME_EVTYPE_BASIC, FALSE, 0) >>

fme_perf_cache_events ==
    << FME_EVENT(0, FME_EVTYPE_CACHE, FALSE, CACHE_CHANNEL_RD),
       FME_EVENT(2, FME_EVTYPE_CACHE, FALSE, CACHE_CHANNEL_RD),
       FME_EVENT(1, FME_EVTYPE_CACHE, FALSE, CACHE_CHANNEL_WR),
       FME_EVENT(3, FME_EVTYPE_CACHE, FALSE, CACHE_CHANNEL_WR),
       FME_EVENT(5, FME_EVTYPE_CACHE, FALSE, CACHE_CHANNEL_RD),
       FME_EVENT(6, FME_EVTYPE_CACHE, FALSE, CACHE_CHANNEL_WR),
       FME_EVENT(7, FME_EVTYPE_CACHE, FALSE, CACHE_CHANNEL_WR),
       FME_EVENT(8, FME_EVTYPE_CACHE, FALSE, CACHE_CHANNEL_RD),
       FME_EVENT(9, FME_EVTYPE_CACHE, FALSE, CACHE_CHANNEL_RD),
       FME_EVENT(10, FME_EVTYPE_CACHE, FALSE, CACHE_CHANNEL_RD) >>

\* variant: the second eight fabric events are overall events too
fme_perf_fab_events_allglobal ==
    [i \in 1..16 |-> FME_EVENT((i - 1) % 8, FME_EVTYPE_FABRIC, FALSE, 0)]

fme_perf_fab_events ==
    [i \in 1..16 |-> FME_EVENT((i - 1) % 8, FME_EVTYPE_FABRIC, i > 8, 0)]

fme_perf_vtd_events ==
    [i \in 1..7 |-> FME_EVENT(i - 1, FME_EVTYPE_VTD, TRUE, 0)]

fme_perf_vtd_sip_events ==
    [i \in 1..12 |-> FME_EVENT(i - 1, FME_EVTYPE_VTD_SIP, FALSE, 0)]

\* indexed by FME_EVTYPE_* + 1; .ops names the callbacks the group defines
fme_perf_event_groups ==
    << [ev_attrs |-> fme_perf_basic_events, ops |-> {"read_counter"}],
       [ev_attrs |-> fme_perf_cache_events, ops |-> {"read_counter"}],
       [ev_attrs |-> fme_perf_fab_events,
        ops |-> {"event_init", "event_destroy", "read_counter"}],
       [ev_attrs |-> fme_perf_vtd_events, ops |-> {"read_counter"}],
       [ev_attrs |-> fme_perf_vtd_sip_events, ops |-> {"read_counter"}] >>

NULL == 0

\* variant: the scan compares the event id only
RECURSIVE scan_event_attr_idonly(_, _, _, _)
scan_event_attr_idonly(attrs, i, event_id, is_port_event) ==
    IF i > Len(attrs) THEN NULL
    ELSE IF event_id = attrs[i].event_id
         THEN i
         ELSE scan_event_attr_idonly(attrs, i + 1, event_id, is_port_event)

\* the scan of get_event_attr from index i: the first matching index, or NULL
RECURSIVE scan_event_attr(_, _, _, _)
scan_event_attr(attrs, i, event_id, is_port_event) ==
    IF i > Len(attrs) THEN NULL
    ELSE IF event_id = attrs[i].event_id /\ is_port_event = attrs[i].is_port_event
         THEN i
         ELSE scan_event_attr(attrs, i + 1, event_id, is_port_event)

\* get_event_attr: the index in the type's group of the descriptor, or NULL
get_event_attr(event_id, event_type, port_id) ==
    LET is_port_event == (port_id # FME_PORTID_ROOT)
    IN  IF event_type > FME_EVTYPE_MAX THEN NULL
        ELSE scan_event_attr(fme_perf_event_groups[event_type + 1].ev_attrs, 1,
                             event_id, is_port_event)

get_event_ops(event_type) == fme_perf_event_groups[event_type + 1].ops

(***************************************************************************)
(* State.                                                                  *)
(*   fab_users, fab_port_id, fab_lock  struct fme_perf_priv (fab_lock is   *)
(*                       0 when free, else the process that holds it)      *)
(*   mmio                the register window, one record per register      *)
(*   event               the perf_event of each caller: its hw fields,     *)
(*                       count, destroy pointer, and whether it is live    *)
(*   pc                  where each caller is inside the driver            *)
(*   call                arguments, locals and result of the last          *)
(*                       fme_perf_event_init of each caller                *)
(*   rd                  locals of the counter read a caller is in         *)
(*   hist                per event: what the reads since start returned    *)
(***************************************************************************)
VARIABLES fab_users, fab_port_id, fab_lock, mmio, event, pc, call, rd, hist

vars == << fab_users, fab_port_id, fab_lock, mmio, event, pc, call, rd, hist >>

U32(x) == x % Word

NoAttr == [config |-> 0, type_ok |-> TRUE, sampling |-> FALSE, task |-> FALSE, cpu |-> 0]
NoCall == [attr |-> NoAttr, ev_attr |-> NULL, fab_ret |-> "0", ret |-> "none"]
NoEvent ==
    [live |-> FALSE, destroy |-> FALSE, event_base |-> 0, idx |-> 0,
     config_base |-> 0, config |-> 0, prev_count |-> 0, count |-> 0]
NoRead == [op |-> "none", event |-> 0, v |-> 0, t |-> 0, count |-> 0, timeout |-> FALSE]
NoHist ==
    [starts |-> 0, reads |-> 0, clean |-> TRUE, last |-> 0, s1 |-> 0, base |-> 0]

\* fme_perf_setup_hardware: the working mode saved from FAB_CTRL at attach
fme_perf_setup_hardware(v) ==
    IF FIELD_GET(FAB_PORT_FILTER, v) = FAB_PORT_FILTER_DISABLE
    THEN FME_PORTID_ROOT
    ELSE FIELD_GET(FAB_PORT_ID, v)

\* the register window right after reset: every selector and counter zero,
\* except the fabric port filter, which firmware may have left in any mode
ResetRegs(filter, port_id) ==
    [CACHE_CTRL |-> [evnt |-> 0, channel |-> 0, rest |-> 0],
     CACHE_CNTR0 |-> [evnt |-> 0, cntr |-> 0],
     CACHE_CNTR1 |-> [evnt |-> 0, cntr |-> 0],
     FAB_CTRL |-> [evnt |-> 0, port_id |-> port_id, filter |-> filter, rest |-> 0],
     FAB_CNTR |-> [evnt |-> 0, cntr |-> 0],
     CLK_CNTR |-> [cntr |-> 0],
     VTD_CTRL |-> [evnt |-> 0, rest |-> 0],
     VTD_CNTR |-> [evnt |-> 0, cntr |-> 0],
     VTD_SIP_CTRL |-> [evnt |-> 0, rest |-> 0],
     VTD_SIP_CNTR |-> [evnt |-> 0, cntr |-> 0]]

\* fme_perf_init / fme_perf_pmu_register: priv is zeroed, the lock is free
\* and the fabric working mode is read back from the hardware
Init ==
    /\ \E filter \in 0..1, port_id \in 0..3, rest \in 0..1 :
          /\ mmio = [ResetRegs(filter, port_id) EXCEPT
                        !["CACHE_CTRL"].rest = rest, !["FAB_CTRL"].rest = rest,
                        !["VTD_CTRL"].rest = rest, !["VTD_SIP_CTRL"].rest = rest]
          /\ fab_port_id = fme_perf_setup_hardware(mmio["FAB_CTRL"])
    /\ fab_users = 0
    /\ fab_lock = 0
    /\ event = [p \in Procs |-> NoEvent]
    /\ pc = [p \in Procs |-> "idle"]
    /\ call = [p \in Procs |-> NoCall]
    /\ rd = [p \in Procs |-> NoRead]
    /\ hist = [p \in Procs |-> NoHist]

\* variant: a port event is refused only above PERF_MAX_PORT_NUM
port_out_of_range_offbyone(desc, port_id) ==
    \/ desc.is_port_event /\ port_id > PERF_MAX_PORT_NUM
    \/ ~desc.is_port_event /\ port_id # FME_PORTID_ROOT

\* variant: only the overall events are tested
port_out_of_range_overall_only(desc, port_id) ==
    ~desc.is_port_event /\ port_id # FME_PORTID_ROOT

\* the port test of fme_perf_event_init on the descriptor found
port_out_of_range(desc, port_id) ==
    \/ desc.is_port_event /\ port_id >= PERF_MAX_PORT_NUM
    \/ ~desc.is_port_event /\ port_id # FME_PORTID_ROOT

\* variant: the test of event->cpu is missing
fme_perf_event_init_nocpu(p, attr) ==
    LET event_id == CFG_GET(FME_EVENT_MASK, attr.config)
        event_type == CFG_GET(FME_EVTYPE_MASK, attr.config)
        port_id == CFG_GET(FME_PORTID_MASK, attr.config)
        ev_attr == get_event_attr(event_id, event_type, port_id)
        desc == fme_perf_event_groups[event_type + 1].ev_attrs[ev_attr]
        fail(err, ea) ==
            /\ call' = [call EXCEPT ![p] =
                   [attr |-> attr, ev_attr |-> ea, fab_ret |-> "0", ret |-> err]]
            /\ UNCHANGED << event, pc, hist >>
    IN  /\ pc[p] = "idle"
        /\ ~event[p].live
        /\ IF ~attr.type_ok THEN fail("-ENOENT", NULL)
           ELSE IF attr.sampling \/ attr.task THEN fail("-EINVAL", NULL)
           ELSE IF ev_attr = NULL THEN fail("-EINVAL", NULL)
           ELSE IF port_out_of_range(desc, port_id) THEN fail("-EINVAL", ev_attr)
           ELSE LET hwc == [NoEvent EXCEPT !.destroy = TRUE,
                                           !.event_base = event_type,
                                           !.idx = event_id,
                                           !.config_base = port_id,
                                           !.config = desc.data]
                IN  IF "event_init" \in get_event_ops(event_type)
                    THEN /\ event' = [event EXCEPT ![p] = hwc]
                         /\ pc' = [pc EXCEPT ![p] = "fab_init_lock"]
                         /\ call' = [call EXCEPT ![p] =
                                [attr |-> attr, ev_attr |-> ev_attr,
                                 fab_ret |-> "0", ret |-> "none"]]
                         /\ hist' = [hist EXCEPT ![p] = NoHist]
                    ELSE /\ event' = [event EXCEPT ![p] = [hwc EXCEPT !.live = TRUE]]
                         /\ pc' = pc
                         /\ call' = [call EXCEPT ![p] =
                                [attr |-> attr, ev_attr |-> ev_attr,
                                 fab_ret |-> "0", ret |-> "0"]]
                         /\ hist' = [hist EXCEPT ![p] = NoHist]
        /\ UNCHANGED << fab_users, fab_port_id, fab_lock, mmio, rd >>

(***************************************************************************)
(* fme_perf_event_init: validation, decoding, resolution; for a type with  *)
(* an event_init callback the caller goes on into it.                      *)
(***************************************************************************)
fme_perf_event_init(p, attr) ==
    LET event_id == CFG_GET(FME_EVENT_MASK, attr.config)
        event_type == CFG_GET(FME_EVTYPE_MASK, attr.config)
        port_id == CFG_GET(FME_PORTID_MASK, attr.config)
        ev_attr == get_event_attr(event_id, event_type, port_id)
        desc == fme_perf_event_groups[event_type + 1].ev_attrs[ev_attr]
        fail(err, ea) ==
            /\ call' = [call EXCEPT ![p] =
                   [attr |-> attr, ev_attr |-> ea, fab_ret |-> "0", ret |-> err]]
            /\ UNCHANGED << event, pc, hist >>
    IN  /\ pc[p] = "idle"
        /\ ~event[p].live
        /\ IF ~attr.type_ok THEN fail("-ENOENT", NULL)
           ELSE IF attr.sampling \/ attr.task THEN fail("-EINVAL", NULL)
           ELSE IF attr.cpu < 0 THEN fail("-EINVAL", NULL)
           ELSE IF ev_attr = NULL THEN fail("-EINVAL", NULL)
           ELSE IF port_out_of_range(desc, port_id) THEN fail("-EINVAL", ev_attr)
           ELSE LET hwc == [NoEvent EXCEPT !.destroy = TRUE,
                                           !.event_base = event_type,
                                           !.idx = event_id,
                                           !.config_base = port_id,
                                           !.config = desc.data]
                IN  IF "event_init" \in get_event_ops(event_type)
                    THEN /\ event' = [event EXCEPT ![p] = hwc]
                         /\ pc' = [pc EXCEPT ![p] = "fab_init_lock"]
                         /\ call' = [call EXCEPT ![p] =
                                [attr |-> attr, ev_attr |-> ev_attr,
                                 fab_ret |-> "0", ret |-> "none"]]
                         /\ hist' = [hist EXCEPT ![p] = NoHist]
                    ELSE /\ event' = [event EXCEPT ![p] = [hwc EXCEPT !.live = TRUE]]
                         /\ pc' = pc
                         /\ call' = [call EXCEPT ![p] =
                                [attr |-> attr, ev_attr |-> ev_attr,
                                 fab_ret |-> "0", ret |-> "0"]]
                         /\ hist' = [hist EXCEPT ![p] = NoHist]
        /\ UNCHANGED << fab_users, fab_port_id, fab_lock, mmio, rd >>

(***************************************************************************)
(* fabric_event_init, one action per step of the critical section.         *)
(***************************************************************************)
\* spin_lock(&priv->fab_lock); ret = 0
fabric_event_init_lock(p) ==
    /\ pc[p] = "fab_init_lock"
    /\ fab_lock = 0
    /\ fab_lock' = p
    /\ call' = [call EXCEPT ![p].fab_ret = "0"]
    /\ pc' = [pc EXCEPT ![p] = "fab_init_check"]
    /\ UNCHANGED << fab_users, fab_port_id, mmio, event, rd, hist >>

\* variant: the conflict test is missing
fabric_event_init_check_noconflict(p) ==
    LET port_id == event[p].config_base
    IN  /\ pc[p] = "fab_init_check"
        /\ fab_users' = U32(fab_users + 1)
        /\ call' = call
        /\ IF fab_port_id = port_id
           THEN /\ pc' = [pc EXCEPT ![p] = "fab_init_exit"]
                /\ fab_port_id' = fab_port_id
           ELSE /\ pc' = [pc EXCEPT ![p] = "fab_init_readq"]
                /\ fab_port_id' = port_id
        /\ UNCHANGED << fab_lock, mmio, event, rd, hist >>

\* variant: the user is counted only when the working mode changes
fabric_event_init_check_latecount(p) ==
    LET port_id == event[p].config_base
    IN  /\ pc[p] = "fab_init_check"
        /\ IF fab_users # 0 /\ fab_port_id # port_id
           THEN /\ call' = [call EXCEPT ![p].fab_ret = "-EOPNOTSUPP"]
                /\ pc' = [pc EXCEPT ![p] = "fab_init_exit"]
                /\ UNCHANGED << fab_users, fab_port_id >>
           ELSE /\ call' = call
                /\ IF fab_port_id = port_id
                   THEN /\ pc' = [pc EXCEPT ![p] = "fab_init_exit"]
                        /\ UNCHANGED << fab_users, fab_port_id >>
                   ELSE /\ pc' = [pc EXCEPT ![p] = "fab_init_readq"]
                        /\ fab_users' = U32(fab_users + 1)
                        /\ fab_port_id' = port_id
        /\ UNCHANGED << fab_lock, mmio, event, rd, hist >>

\* variant: the user is counted before the conflict test
fabric_event_init_check_earlycount(p) ==
    LET port_id == event[p].config_base
    IN  /\ pc[p] = "fab_init_check"
        /\ fab_users' = U32(fab_users + 1)
        /\ IF fab_users # 0 /\ fab_port_id # port_id
           THEN /\ call' = [call EXCEPT ![p].fab_ret = "-EOPNOTSUPP"]
                /\ pc' = [pc EXCEPT ![p] = "fab_init_exit"]
                /\ UNCHANGED fab_port_id
           ELSE /\ call' = call
                /\ IF fab_port_id = port_id
                   THEN /\ pc' = [pc EXCEPT ![p] = "fab_init_exit"]
                        /\ fab_port_id' = fab_port_id
                   ELSE /\ pc' = [pc EXCEPT ![p] = "fab_init_readq"]
                        /\ fab_port_id' = port_id
        /\ UNCHANGED << fab_lock, mmio, event, rd, hist >>

\* the conflict test, the increment and the working-mode test
fabric_event_init_check(p) ==
    LET port_id == event[p].config_base
    IN  /\ pc[p] = "fab_init_check"
        /\ IF fab_users # 0 /\ fab_port_id # port_id
           THEN /\ call' = [call EXCEPT ![p].fab_ret = "-EOPNOTSUPP"]
                /\ pc' = [pc EXCEPT ![p] = "fab_init_exit"]
                /\ UNCHANGED << fab_users, fab_port_id >>
           ELSE /\ fab_users' = U32(fab_users + 1)
                /\ call' = call
                /\ IF fab_port_id = port_id
                   THEN /\ pc' = [pc EXCEPT ![p] = "fab_init_exit"]
                        /\ fab_port_id' = fab_port_id
                   ELSE /\ pc' = [pc EXCEPT ![p] = "fab_init_readq"]
                        /\ fab_port_id' = port_id
        /\ UNCHANGED << fab_lock, mmio, event, rd, hist >>

\* v = readq(base + FAB_CTRL)
fabric_event_init_readq(p) ==
    /\ pc[p] = "fab_init_readq"
    /\ rd' = [rd EXCEPT ![p].v = mmio["FAB_CTRL"]]
    /\ pc' = [pc EXCEPT ![p] = "fab_init_writeq"]
    /\ UNCHANGED << fab_users, fab_port_id, fab_lock, mmio, event, call, hist >>

\* variant: the port filter is enabled for the overall mode and disabled for
\* a port
fabric_event_init_writeq_swapped(p) ==
    LET port_id == event[p].config_base
        v0 == FIELD_SET(FIELD_SET(rd[p].v, FAB_PORT_FILTER, 0), FAB_PORT_ID, 0)
        v1 == IF port_id # FME_PORTID_ROOT
              THEN FIELD_SET(v0, FAB_PORT_FILTER, FAB_PORT_FILTER_DISABLE)
              ELSE FIELD_SET(FIELD_SET(v0, FAB_PORT_FILTER, FAB_PORT_FILTER_ENABLE),
                             FAB_PORT_ID, port_id)
    IN  /\ pc[p] = "fab_init_writeq"
        /\ mmio' = [mmio EXCEPT !["FAB_CTRL"] = v1]
        /\ rd' = [rd EXCEPT ![p].v = 0]
        /\ pc' = [pc EXCEPT ![p] = "fab_init_exit"]
        /\ UNCHANGED << fab_users, fab_port_id, fab_lock, event, call, hist >>

\* variant: the value written is built from 0, not from the value read
fabric_event_init_writeq_fresh(p) ==
    LET port_id == event[p].config_base
        v0 == [evnt |-> 0, port_id |-> 0, filter |-> 0, rest |-> 0]
        v1 == IF port_id = FME_PORTID_ROOT
              THEN FIELD_SET(v0, FAB_PORT_FILTER, FAB_PORT_FILTER_DISABLE)
              ELSE FIELD_SET(FIELD_SET(v0, FAB_PORT_FILTER, FAB_PORT_FILTER_ENABLE),
                             FAB_PORT_ID, port_id)
    IN  /\ pc[p] = "fab_init_writeq"
        /\ mmio' = [mmio EXCEPT !["FAB_CTRL"] = v1]
        /\ rd' = [rd EXCEPT ![p].v = 0]
        /\ pc' = [pc EXCEPT ![p] = "fab_init_exit"]
        /\ UNCHANGED << fab_users, fab_port_id, fab_lock, event, call, hist >>

\* the filter and port id are replaced in v, then writeq(v, base + FAB_CTRL)
fabric_event_init_writeq(p) ==
    LET port_id == event[p].config_base
        v0 == FIELD_SET(FIELD_SET(rd[p].v, FAB_PORT_FILTER, 0), FAB_PORT_ID, 0)
        v1 == IF port_id = FME_PORTID_ROOT
              THEN FIELD_SET(v0, FAB_PORT_FILTER, FAB_PORT_FILTER_DISABLE)
              ELSE FIELD_SET(FIELD_SET(v0, FAB_PORT_FILTER, FAB_PORT_FILTER_ENABLE),
                             FAB_PORT_ID, port_id)
    IN  /\ pc[p] = "fab_init_writeq"
        /\ mmio' = [mmio EXCEPT !["FAB_CTRL"] = v1]
        /\ rd' = [rd EXCEPT ![p].v = 0]
        /\ pc' = [pc EXCEPT ![p] = "fab_init_exit"]
        /\ UNCHANGED << fab_users, fab_port_id, fab_lock, event, call, hist >>

\* variant: the refusal returns without spin_unlock
fabric_event_init_exit_leak(p) ==
    /\ pc[p] = "fab_init_exit"
    /\ fab_lock' = IF call[p].fab_ret = "0" THEN 0 ELSE fab_lock
    /\ call' = [call EXCEPT ![p].ret = call[p].fab_ret]
    /\ event' = [event EXCEPT ![p].live = (call[p].fab_ret = "0")]
    /\ pc' = [pc EXCEPT ![p] = "idle"]
    /\ UNCHANGED << fab_users, fab_port_id, mmio, rd, hist >>

\* exit: spin_unlock(&priv->fab_lock); return ret, which fme_perf_event_init
\* returns in turn.  The event is live when that is 0.
fabric_event_init_exit(p) ==
    /\ pc[p] = "fab_init_exit"
    /\ fab_lock' = 0
    /\ call' = [call EXCEPT ![p].ret = call[p].fab_ret]
    /\ event' = [event EXCEPT ![p].live = (call[p].fab_ret = "0")]
    /\ pc' = [pc EXCEPT ![p] = "idle"]
    /\ UNCHANGED << fab_users, fab_port_id, mmio, rd, hist >>

(***************************************************************************)
(* fme_perf_event_destroy and fabric_event_destroy.                        *)
(***************************************************************************)
\* the perf core calls event->destroy once, when a created event is released
perf_core_may_destroy(p) == event[p].live /\ event[p].destroy

\* fme_perf_event_destroy: without an event_destroy callback nothing is done;
\* with one, the caller enters fabric_event_destroy and takes the lock
fme_perf_event_destroy(p) ==
    /\ pc[p] = "idle"
    /\ perf_core_may_destroy(p)
    /\ IF "event_destroy" \in get_event_ops(event[p].event_base)
       THEN /\ fab_lock = 0
            /\ fab_lock' = p
            /\ pc' = [pc EXCEPT ![p] = "fab_destroy_dec"]
            /\ event' = [event EXCEPT ![p].live = FALSE]
       ELSE /\ event' = [event EXCEPT ![p] = NoEvent]
            /\ UNCHANGED << fab_lock, pc >>
    /\ UNCHANGED << fab_users, fab_port_id, mmio, call, rd, hist >>

\* variant: the last close puts the working mode back to the overall mode
fabric_event_destroy_dec_reset(p) ==
    /\ pc[p] = "fab_destroy_dec"
    /\ fab_users' = U32(fab_users - 1)
    /\ fab_port_id' = IF fab_users' = 0 THEN FME_PORTID_ROOT ELSE fab_port_id
    /\ pc' = [pc EXCEPT ![p] = "fab_destroy_unlock"]
    /\ UNCHANGED << fab_lock, mmio, event, call, rd, hist >>

\* priv->fab_users--
fabric_event_destroy_dec(p) ==
    /\ pc[p] = "fab_destroy_dec"
    /\ fab_users' = U32(fab_users - 1)
    /\ pc' = [pc EXCEPT ![p] = "fab_destroy_unlock"]
    /\ UNCHANGED << fab_port_id, fab_lock, mmio, event, call, rd, hist >>

\* spin_unlock(&priv->fab_lock); the event is gone
fabric_event_destroy_unlock(p) ==
    /\ pc[p] = "fab_destroy_unlock"
    /\ fab_lock' = 0
    /\ event' = [event EXCEPT ![p] = NoEvent]
    /\ pc' = [pc EXCEPT ![p] = "idle"]
    /\ UNCHANGED << fab_users, fab_port_id, mmio, call, rd, hist >>

(***************************************************************************)
(* The device.  A counter register read gets what the block presents at    *)
(* that moment: a count together with the code of the event it belongs to, *)
(* the event selected in the control register once the block has followed  *)
(* the selection, another one as long as it has not.  mmio keeps the value *)
(* last presented.  The clock counter runs freely.                         *)
(***************************************************************************)
\* counts the device presents: zero, one and the largest of the field
Counts(bits) == {0, 1, 2 ^ bits - 1}

\* the codes a block may present: the selected one and one that is not
Tags(ctrl) == {mmio[ctrl].evnt, (mmio[ctrl].evnt + 1) % 16}

\* the code presented in counter register reg to an iteration of a poll
hw_tag(reg, ctrl) ==
    \E tag \in Tags(ctrl) : mmio' = [mmio EXCEPT ![reg].evnt = tag]

\* the value presented in counter register reg to the readq of the count
hw_counter(reg, ctrl, cs) ==
    \E tag \in Tags(ctrl), c \in cs :
        mmio' = [mmio EXCEPT ![reg] = [evnt |-> tag, cntr |-> c]]

\* the value presented in CLK_CNTR
hw_clock ==
    \E c \in Counts(WordBits) : mmio' = [mmio EXCEPT !["CLK_CNTR"].cntr = c]

(***************************************************************************)
(* The counter reads.  A caller inside ops->read_counter is at one of the  *)
(* register accesses of the function; rd[p] holds the locals (event, v,    *)
(* the time waited in the poll, and the value returned).                   *)
(***************************************************************************)
\* return of ops->read_counter into the caller that is recorded in rd[p].op
read_counter_return(p, count, timeout) ==
    /\ rd' = [rd EXCEPT ![p].count = count, ![p].timeout = timeout,
                        ![p].v = 0, ![p].t = 0]
    /\ pc' = [pc EXCEPT ![p] = rd[p].op]

\* one iteration of readq_poll_timeout_atomic(addr, v, cond, 1, PERF_TIMEOUT):
\* "match" when the value read satisfies cond, "timeout" when it does not and
\* the time waited has reached the bound, else "again" after udelay(1)
readq_poll_timeout_atomic(cond, t) ==
    IF cond THEN "match"
    ELSE IF t >= PERF_TIMEOUT THEN "timeout"
    ELSE "again"

\* the step of a poll loop on counter register reg, going on to ok_pc on a
\* match; v is the value the readq of the iteration gets
poll_step(p, reg, mask, ok_pc) ==
    LET v == mmio'[reg]
        r == readq_poll_timeout_atomic(FIELD_GET(mask, v) = rd[p].event, rd[p].t)
    IN  CASE r = "match" ->
               /\ rd' = [rd EXCEPT ![p].t = 0]
               /\ pc' = [pc EXCEPT ![p] = ok_pc]
          [] r = "timeout" -> read_counter_return(p, 0, TRUE)
          [] r = "again" ->
               /\ rd' = [rd EXCEPT ![p].t = rd[p].t + 1]
               /\ pc' = pc

\* basic_read_event_counter
basic_read_event_counter(p) ==
    /\ pc[p] = "basic_readq"
    /\ IF rd[p].event = BASIC_EVNT_CLK
       THEN /\ hw_clock
            /\ read_counter_return(p, mmio'["CLK_CNTR"].cntr, FALSE)
       ELSE /\ read_counter_return(p, 0, FALSE)
            /\ UNCHANGED mmio
    /\ UNCHANGED << fab_users, fab_port_id, fab_lock, event, call, hist >>

\* cache_read_event_counter: v = readq(base + CACHE_CTRL)
cache_read_event_counter_readq(p) ==
    /\ pc[p] = "cache_ctrl_readq"
    /\ rd' = [rd EXCEPT ![p].v = mmio["CACHE_CTRL"]]
    /\ pc' = [pc EXCEPT ![p] = "cache_ctrl_writeq"]
    /\ UNCHANGED << fab_users, fab_port_id, fab_lock, mmio, event, call, hist >>

\* channel and event code are replaced in v; writeq(v, base + CACHE_CTRL)
cache_read_event_counter_writeq(p) ==
    LET channel == event[p].config % 256
        v == FIELD_SET(FIELD_SET(rd[p].v, CACHE_CHANNEL_SEL, channel),
                       CACHE_CTRL_EVNT, rd[p].event)
    IN  /\ pc[p] = "cache_ctrl_writeq"
        /\ mmio' = [mmio EXCEPT !["CACHE_CTRL"] = v]
        /\ rd' = [rd EXCEPT ![p].v = 0, ![p].t = 0]
        /\ pc' = [pc EXCEPT ![p] = "cache_poll"]
        /\ UNCHANGED << fab_users, fab_port_id, fab_lock, event, call, hist >>

\* the poll of CACHE_CNTR0 and the timeout return
cache_read_event_counter_poll(p) ==
    /\ pc[p] = "cache_poll"
    /\ hw_tag("CACHE_CNTR0", "CACHE_CTRL")
    /\ poll_step(p, "CACHE_CNTR0", CACHE_CNTR_EVNT, "cache_cntr0_readq")
    /\ UNCHANGED << fab_users, fab_port_id, fab_lock, event, call, hist >>

\* v = readq(base + CACHE_CNTR0); count = FIELD_GET(CACHE_CNTR_EVNT_CNTR, v)
cache_read_event_counter_cntr0(p) ==
    /\ pc[p] = "cache_cntr0_readq"
    /\ hw_counter("CACHE_CNTR0", "CACHE_CTRL", Counts(Cntr48Bits))
    /\ rd' = [rd EXCEPT ![p].count = FIELD_GET(CACHE_CNTR_EVNT_CNTR, mmio'["CACHE_CNTR0"])]
    /\ pc' = [pc EXCEPT ![p] = "cache_cntr1_readq"]
    /\ UNCHANGED << fab_users, fab_port_id, fab_lock, event, call, hist >>

\* variant: the count of CACHE_CNTR1 replaces that of CACHE_CNTR0
cache_read_event_counter_cntr1_nosum(p) ==
    /\ pc[p] = "cache_cntr1_readq"
    /\ hw_counter("CACHE_CNTR1", "CACHE_CTRL", {0, 1})
    /\ read_counter_return(p, FIELD_GET(CACHE_CNTR_EVNT_CNTR, mmio'["CACHE_CNTR1"]), FALSE)
    /\ UNCHANGED << fab_users, fab_port_id, fab_lock, event, call, hist >>

\* v = readq(base + CACHE_CNTR1); count += FIELD_GET(...); return count
cache_read_event_counter_cntr1(p) ==
    /\ pc[p] = "cache_cntr1_readq"
    /\ hw_counter("CACHE_CNTR1", "CACHE_CTRL", {0, 1})
    /\ read_counter_return(p,
           U64(rd[p].count + FIELD_GET(CACHE_CNTR_EVNT_CNTR, mmio'["CACHE_CNTR1"])), FALSE)
    /\ UNCHANGED << fab_users, fab_port_id, fab_lock, event, call, hist >>

\* variant: the read takes fab_lock before it reads FAB_CTRL
fabric_read_event_counter_readq_locked(p) ==
    /\ pc[p] = "fab_ctrl_readq"
    /\ fab_lock = 0
    /\ fab_lock' = p
    /\ rd' = [rd EXCEPT ![p].v = mmio["FAB_CTRL"]]
    /\ pc' = [pc EXCEPT ![p] = "fab_ctrl_writeq"]
    /\ UNCHANGED << fab_users, fab_port_id, mmio, event, call, hist >>

\* fabric_read_event_counter: v = readq(base + FAB_CTRL)
fabric_read_event_counter_readq(p) ==
    /\ pc[p] = "fab_ctrl_readq"
    /\ rd' = [rd EXCEPT ![p].v = mmio["FAB_CTRL"]]
    /\ pc' = [pc EXCEPT ![p] = "fab_ctrl_writeq"]
    /\ UNCHANGED << fab_users, fab_port_id, fab_lock, mmio, event, call, hist >>

\* variant: the value written is the event code alone
fabric_read_event_counter_writeq_fresh(p) ==
    /\ pc[p] = "fab_ctrl_writeq"
    /\ mmio' = [mmio EXCEPT !["FAB_CTRL"] =
                    FIELD_SET([evnt |-> 0, port_id |-> 0, filter |-> 0, rest |-> 0],
                              FAB_CTRL_EVNT, rd[p].event)]
    /\ rd' = [rd EXCEPT ![p].v = 0, ![p].t = 0]
    /\ pc' = [pc EXCEPT ![p] = "fab_poll"]
    /\ UNCHANGED << fab_users, fab_port_id, fab_lock, event, call, hist >>

\* the event code is replaced in v; writeq(v, base + FAB_CTRL)
fabric_read_event_counter_writeq(p) ==
    /\ pc[p] = "fab_ctrl_writeq"
    /\ mmio' = [mmio EXCEPT !["FAB_CTRL"] = FIELD_SET(rd[p].v, FAB_CTRL_EVNT, rd[p].event)]
    /\ rd' = [rd EXCEPT ![p].v = 0, ![p].t = 0]
    /\ pc' = [pc EXCEPT ![p] = "fab_poll"]
    /\ UNCHANGED << fab_users, fab_port_id, fab_lock, event, call, hist >>

\* the poll of FAB_CNTR and the timeout return
fabric_read_event_counter_poll(p) ==
    /\ pc[p] = "fab_poll"
    /\ hw_tag("FAB_CNTR", "FAB_CTRL")
    /\ poll_step(p, "FAB_CNTR", FAB_CNTR_EVNT, "fab_cntr_readq")
    /\ UNCHANGED << fab_users, fab_port_id, fab_lock, event, call, hist >>

\* v = readq(base + FAB_CNTR); return FIELD_GET(FAB_CNTR_EVNT_CNTR, v)
fabric_read_event_counter_cntr(p) ==
    /\ pc[p] = "fab_cntr_readq"
    /\ hw_counter("FAB_CNTR", "FAB_CTRL", Counts(Cntr60Bits))
    /\ read_counter_return(p, FIELD_GET(FAB_CNTR_EVNT_CNTR, mmio'["FAB_CNTR"]), FALSE)
    /\ UNCHANGED << fab_users, fab_port_id, fab_lock, event, call, hist >>

\* vtd_read_event_counter: v = readq(base + VTD_CTRL)
vtd_read_event_counter_readq(p) ==
    /\ pc[p] = "vtd_ctrl_readq"
    /\ rd' = [rd EXCEPT ![p].v = mmio["VTD_CTRL"]]
    /\ pc' = [pc EXCEPT ![p] = "vtd_ctrl_writeq"]
    /\ UNCHANGED << fab_users, fab_port_id, fab_lock, mmio, event, call, hist >>

\* the event code is replaced in v; writeq(v, base + VTD_CTRL)
vtd_read_event_counter_writeq(p) ==
    /\ pc[p] = "vtd_ctrl_writeq"
    /\ mmio' = [mmio EXCEPT !["VTD_CTRL"] = FIELD_SET(rd[p].v, VTD_CTRL_EVNT, rd[p].event)]
    /\ rd' = [rd EXCEPT ![p].v = 0, ![p].t = 0]
    /\ pc' = [pc EXCEPT ![p] = "vtd_poll"]
    /\ UNCHANGED << fab_users, fab_port_id, fab_lock, event, call, hist >>

\* the poll of VTD_CNTR and the timeout return
vtd_read_event_counter_poll(p) ==
    /\ pc[p] = "vtd_poll"
    /\ hw_tag("VTD_CNTR", "VTD_CTRL")
    /\ poll_step(p, "VTD_CNTR", VTD_CNTR_EVNT, "vtd_cntr_readq")
    /\ UNCHANGED << fab_users, fab_port_id, fab_lock, event, call, hist >>

\* v = readq(base + VTD_CNTR); return FIELD_GET(VTD_CNTR_EVNT_CNTR, v)
vtd_read_event_counter_cntr(p) ==
    /\ pc[p] = "vtd_cntr_readq"
    /\ hw_counter("VTD_CNTR", "VTD_CTRL", Counts(Cntr48Bits))
    /\ read_counter_return(p, FIELD_GET(VTD_CNTR_EVNT_CNTR, mmio'["VTD_CNTR"]), FALSE)
    /\ UNCHANGED << fab_users, fab_port_id, fab_lock, event, call, hist >>

\* vtd_sip_read_event_counter: v = readq(base + VTD_SIP_CTRL)
vtd_sip_read_event_counter_readq(p) ==
    /\ pc[p] = "vtd_sip_ctrl_readq"
    /\ rd' = [rd EXCEPT ![p].v = mmio["VTD_SIP_CTRL"]]
    /\ pc' = [pc EXCEPT ![p] = "vtd_sip_ctrl_writeq"]
    /\ UNCHANGED << fab_users, fab_port_id, fab_lock, mmio, event, call, hist >>

\* the event code is replaced in v; writeq(v, base + VTD_SIP_CTRL)
vtd_sip_read_event_counter_writeq(p) ==
    /\ pc[p] = "vtd_sip_ctrl_writeq"
    /\ mmio' = [mmio EXCEPT !["VTD_SIP_CTRL"] =
                    FIELD_SET(rd[p].v, VTD_SIP_CTRL_EVNT, rd[p].event)]
    /\ rd' = [rd EXCEPT ![p].v = 0, ![p].t = 0]
    /\ pc' = [pc EXCEPT ![p] = "vtd_sip_poll"]
    /\ UNCHANGED << fab_users, fab_port_id, fab_lock, event, call, hist >>

\* variant: the return on timeout is missing, the counter is read anyway
vtd_sip_read_event_counter_poll_noreturn(p) ==
    /\ pc[p] = "vtd_sip_poll"
    /\ hw_tag("VTD_SIP_CNTR", "VTD_SIP_CTRL")
    /\ IF \/ FIELD_GET(VTD_SIP_CNTR_EVNT, mmio'["VTD_SIP_CNTR"]) = rd[p].event
          \/ rd[p].t >= PERF_TIMEOUT
       THEN /\ rd' = [rd EXCEPT ![p].t = 0]
            /\ pc' = [pc EXCEPT ![p] = "vtd_sip_cntr_readq"]
       ELSE /\ rd' = [rd EXCEPT ![p].t = rd[p].t + 1]
            /\ pc' = pc
    /\ UNCHANGED << fab_users, fab_port_id, fab_lock, event, call, hist >>

\* the poll of VTD_SIP_CNTR and the timeout return
vtd_sip_read_event_counter_poll(p) ==
    /\ pc[p] = "vtd_sip_poll"
    /\ hw_tag("VTD_SIP_CNTR", "VTD_SIP_CTRL")
    /\ poll_step(p, "VTD_SIP_CNTR", VTD_SIP_CNTR_EVNT, "vtd_sip_cntr_readq")
    /\ UNCHANGED << fab_users, fab_port_id, fab_lock, event, call, hist >>

\* v = readq(base + VTD_SIP_CNTR); return FIELD_GET(VTD_SIP_CNTR_EVNT_CNTR, v)
vtd_sip_read_event_counter_cntr(p) ==
    /\ pc[p] = "vtd_sip_cntr_readq"
    /\ hw_counter("VTD_SIP_CNTR", "VTD_SIP_CTRL", Counts(Cntr48Bits))
    /\ read_counter_return(p, FIELD_GET(VTD_SIP_CNTR_EVNT_CNTR, mmio'["VTD_SIP_CNTR"]), FALSE)
    /\ UNCHANGED << fab_users, fab_port_id, fab_lock, event, call, hist >>

(***************************************************************************)
(* The session handlers: start, add, stop, del, read.                      *)
(***************************************************************************)
\* where ops->read_counter of a type begins
read_counter_entry(event_type) ==
    CASE event_type = FME_EVTYPE_BASIC -> "basic_readq"
      [] event_type = FME_EVTYPE_CACHE -> "cache_ctrl_readq"
      [] event_type = FME_EVTYPE_FABRIC -> "fab_ctrl_readq"
      [] event_type = FME_EVTYPE_VTD -> "vtd_ctrl_readq"
      [] event_type = FME_EVTYPE_VTD_SIP -> "vtd_sip_ctrl_readq"

\* the call ops->read_counter(priv, hw.idx, hw.config_base, hw.config) made by
\* handler op; vtd_read_event_counter begins with event += port_id
read_counter_call(p, op) ==
    LET hw == event[p]
        ev == IF hw.event_base = FME_EVTYPE_VTD
              THEN U64(hw.idx + hw.config_base) ELSE hw.idx
    IN  /\ rd' = [rd EXCEPT ![p] = [NoRead EXCEPT !.op = op, !.event = ev]]
        /\ pc' = [pc EXCEPT ![p] = read_counter_entry(hw.event_base)]

\* fme_perf_event_start up to the call of read_counter
fme_perf_event_start(p) ==
    /\ pc[p] = "idle"
    /\ event[p].live
    /\ hist[p].starts < MaxStarts
    /\ read_counter_call(p, "start")
    /\ UNCHANGED << fab_users, fab_port_id, fab_lock, mmio, event, call, hist >>

\* variant: start also clears count
fme_perf_event_start_set_reset(p) ==
    /\ pc[p] = "start"
    /\ event' = [event EXCEPT ![p].prev_count = rd[p].count, ![p].count = 0]
    /\ hist' = [hist EXCEPT ![p] =
                   [starts |-> hist[p].starts + 1, reads |-> 0,
                    clean |-> ~rd[p].timeout, last |-> rd[p].count,
                    s1 |-> rd[p].count, base |-> 0]]
    /\ rd' = [rd EXCEPT ![p] = NoRead]
    /\ pc' = [pc EXCEPT ![p] = "idle"]
    /\ UNCHANGED << fab_users, fab_port_id, fab_lock, mmio, call >>

\* fme_perf_event_start after it: local64_set(&event->hw.prev_count, count)
fme_perf_event_start_set(p) ==
    /\ pc[p] = "start"
    /\ event' = [event EXCEPT ![p].prev_count = rd[p].count]
    /\ hist' = [hist EXCEPT ![p] =
                   [starts |-> hist[p].starts + 1, reads |-> 0,
                    clean |-> ~rd[p].timeout, last |-> rd[p].count,
                    s1 |-> rd[p].count, base |-> event[p].count]]
    /\ rd' = [rd EXCEPT ![p] = NoRead]
    /\ pc' = [pc EXCEPT ![p] = "idle"]
    /\ UNCHANGED << fab_users, fab_port_id, fab_lock, mmio, call >>

\* fme_perf_event_add: with PERF_EF_START it is fme_perf_event_start, without
\* it nothing is done
fme_perf_event_add(p, ef_start) ==
    IF ef_start THEN fme_perf_event_start(p)
    ELSE /\ pc[p] = "idle"
         /\ event[p].live
         /\ UNCHANGED vars

\* fme_perf_event_update up to the call of read_counter
fme_perf_event_update(p) ==
    /\ pc[p] = "idle"
    /\ event[p].live
    /\ hist[p].reads < MaxReads
    /\ read_counter_call(p, "update")
    /\ UNCHANGED << fab_users, fab_port_id, fab_lock, mmio, event, call, hist >>

fme_perf_event_stop(p) == fme_perf_event_update(p)

fme_perf_event_del(p) == fme_perf_event_stop(p)

fme_perf_event_read(p) == fme_perf_event_update(p)

\* variant: the update ends with the type's event_destroy
fme_perf_event_update_add_release(p) ==
    LET now == rd[p].count
        prev == event[p].prev_count
        delta == U64(now - prev)
    IN  /\ pc[p] = "update"
        /\ event' = [event EXCEPT ![p].count = U64(event[p].count + delta)]
        /\ hist' = [hist EXCEPT ![p].reads = hist[p].reads + 1,
                                ![p].clean = /\ hist[p].clean
                                             /\ ~rd[p].timeout
                                             /\ now >= hist[p].last,
                                ![p].last = now]
        /\ rd' = [rd EXCEPT ![p] = NoRead]
        /\ pc' = [pc EXCEPT ![p] = "idle"]
        /\ fab_users' = IF "event_destroy" \in get_event_ops(event[p].event_base)
                        THEN U32(fab_users - 1) ELSE fab_users
        /\ UNCHANGED << fab_port_id, fab_lock, mmio, call >>

\* fme_perf_event_update after it: delta = now - prev; local64_add(delta, count)
fme_perf_event_update_add(p) ==
    LET now == rd[p].count
        prev == event[p].prev_count
        delta == U64(now - prev)
    IN  /\ pc[p] = "update"
        /\ event' = [event EXCEPT ![p].count = U64(event[p].count + delta)]
        /\ hist' = [hist EXCEPT ![p].reads = hist[p].reads + 1,
                                ![p].clean = /\ hist[p].clean
                                             /\ ~rd[p].timeout
                                             /\ now >= hist[p].last,
                                ![p].last = now]
        /\ rd' = [rd EXCEPT ![p] = NoRead]
        /\ pc' = [pc EXCEPT ![p] = "idle"]
        /\ UNCHANGED << fab_users, fab_port_id, fab_lock, mmio, call >>

(***************************************************************************)
(* Specification of the arbiter: NProcs callers open and close events      *)
(* concurrently.                                                           *)
(***************************************************************************)
\* the configuration word of (event id, event type, port id)
Config(event_id, event_type, port_id) == event_id + event_type * 4096 + port_id * 65536

Attr(config) == [NoAttr EXCEPT !.config = config]

\* requests of the callers: two fabric events in overall mode, on port 0 and
\* on a port the device does not have, and one cache event
ArbiterAttrs ==
    { Attr(Config(id, FME_EVTYPE_FABRIC, port)) :
          id \in {0, 1}, port \in {FME_PORTID_ROOT, 0, 1} }
    \cup { Attr(Config(0, FME_EVTYPE_CACHE, FME_PORTID_ROOT)) }

Next ==
    \E p \in Procs :
        \/ \E attr \in ArbiterAttrs : fme_perf_event_init(p, attr)
        \/ fabric_event_init_lock(p)
        \/ fabric_event_init_check(p)
        \/ fabric_event_init_readq(p)
        \/ fabric_event_init_writeq(p)
        \/ fabric_event_init_exit(p)
        \/ fme_perf_event_destroy(p)
        \/ fabric_event_destroy_dec(p)
        \/ fabric_event_destroy_unlock(p)

Spec == Init /\ [][Next]_vars

(***************************************************************************)
(* Specification of a session: one caller opens an event of any type and   *)
(* starts, reads and stops it while the device counts.                     *)
(***************************************************************************)
\* the caller of the specifications with one caller
Caller == CHOOSE p \in Procs : \A q \in Procs : p <= q

SessionAttrs ==
    { Attr(Config(BASIC_EVNT_CLK, FME_EVTYPE_BASIC, FME_PORTID_ROOT)),
      Attr(Config(1, FME_EVTYPE_CACHE, FME_PORTID_ROOT)),
      Attr(Config(2, FME_EVTYPE_FABRIC, FME_PORTID_ROOT)),
      Attr(Config(3, FME_EVTYPE_FABRIC, 0)),
      Attr(Config(4, FME_EVTYPE_VTD, 0)),
      Attr(Config(5, FME_EVTYPE_VTD_SIP, FME_PORTID_ROOT)) }

\* the caller has chosen the event it is going to open (and reopen); of the
\* bits of the control registers the driver does not know, some are set
InitSession ==
    /\ mmio = [ResetRegs(FAB_PORT_FILTER_DISABLE, 0) EXCEPT
                  !["CACHE_CTRL"].rest = 1, !["FAB_CTRL"].rest = 1,
                  !["VTD_CTRL"].rest = 1, !["VTD_SIP_CTRL"].rest = 1]
    /\ fab_port_id = fme_perf_setup_hardware(mmio["FAB_CTRL"])
    /\ fab_users = 0
    /\ fab_lock = 0
    /\ event = [p \in Procs |-> NoEvent]
    /\ pc = [p \in Procs |-> "idle"]
    /\ \E attr \in SessionAttrs :
          call = [p \in Procs |-> IF p = Caller THEN [NoCall EXCEPT !.attr = attr]
                                                ELSE NoCall]
    /\ rd = [p \in Procs |-> NoRead]
    /\ hist = [p \in Procs |-> NoHist]

NextSession ==
    \/ fme_perf_event_init(Caller, call[Caller].attr)
    \/ fabric_event_init_lock(Caller)
    \/ fabric_event_init_check(Caller)
    \/ fabric_event_init_readq(Caller)
    \/ fabric_event_init_writeq(Caller)
    \/ fabric_event_init_exit(Caller)
    \/ fme_perf_event_destroy(Caller)
    \/ fabric_event_destroy_dec(Caller)
    \/ fabric_event_destroy_unlock(Caller)
    \/ \E ef_start \in BOOLEAN : fme_perf_event_add(Caller, ef_start)
    \/ fme_perf_event_start(Caller)
    \/ fme_perf_event_start_set(Caller)
    \/ fme_perf_event_stop(Caller)
    \/ fme_perf_event_del(Caller)
    \/ fme_perf_event_read(Caller)
    \/ fme_perf_event_update_add(Caller)
    \/ basic_read_event_counter(Caller)
    \/ cache_read_event_counter_readq(Caller)
    \/ cache_read_event_counter_writeq(Caller)
    \/ cache_read_event_counter_poll(Caller)
    \/ cache_read_event_counter_cntr0(Caller)
    \/ cache_read_event_counter_cntr1(Caller)
    \/ fabric_read_event_counter_readq(Caller)
    \/ fabric_read_event_counter_writeq(Caller)
    \/ fabric_read_event_counter_poll(Caller)
    \/ fabric_read_event_counter_cntr(Caller)
    \/ vtd_read_event_counter_readq(Caller)
    \/ vtd_read_event_counter_writeq(Caller)
    \/ vtd_read_event_counter_poll(Caller)
    \/ vtd_read_event_counter_cntr(Caller)
    \/ vtd_sip_read_event_counter_readq(Caller)
    \/ vtd_sip_read_event_counter_writeq(Caller)
    \/ vtd_sip_read_event_counter_poll(Caller)
    \/ vtd_sip_read_event_counter_cntr(Caller)

SpecSession == InitSession /\ [][NextSession]_vars

(***************************************************************************)
(* Specification of open: one caller opens events with configuration words *)
(* of every kind, valid or not, and closes them.                           *)
(***************************************************************************)
OpenIds == 0..12
OpenTypes == 0..6 \cup {15}
OpenPorts == {0, 1, 2, FME_PORTID_ROOT}

OpenAttrs ==
    { Attr(Config(id, type, port)) : id \in OpenIds, type \in OpenTypes, port \in OpenPorts }
    \cup { [Attr(Config(0, FME_EVTYPE_FABRIC, FME_PORTID_ROOT)) EXCEPT
               !.type_ok = ok, !.sampling = s, !.task = t, !.cpu = c] :
           ok \in BOOLEAN, s \in BOOLEAN, t \in BOOLEAN, c \in {-1, 0} }

NextOpen ==
    \/ \E attr \in OpenAttrs : fme_perf_event_init(Caller, attr)
    \/ fabric_event_init_lock(Caller)
    \/ fabric_event_init_check(Caller)
    \/ fabric_event_init_readq(Caller)
    \/ fabric_event_init_writeq(Caller)
    \/ fabric_event_init_exit(Caller)
    \/ fme_perf_event_destroy(Caller)
    \/ fabric_event_destroy_dec(Caller)
    \/ fabric_event_destroy_unlock(Caller)

\* as Init, with the registers as reset leaves them but for the port filter
InitOpen ==
    /\ Init
    /\ \E filter \in 0..1 : mmio = ResetRegs(filter, 0)

SpecOpen == InitOpen /\ [][NextOpen]_vars

(***************************************************************************)
(* Specification of the shared fabric block: NProcs callers open and close *)
(* fabric events concurrently, and two of them also start theirs, which    *)
(* reads the counter.                                                      *)
(***************************************************************************)
\* the caller next to Caller
Peer == CHOOSE p \in Procs \ {Caller} : \A q \in Procs \ {Caller} : p <= q

\* the callers that start their events
Starters == {Caller, Peer}

\* two overall events with different event codes, and one event of port 0
FabricAttrs ==
    { Attr(Config(0, FME_EVTYPE_FABRIC, FME_PORTID_ROOT)),
      Attr(Config(1, FME_EVTYPE_FABRIC, FME_PORTID_ROOT)),
      Attr(Config(0, FME_EVTYPE_FABRIC, 0)) }

\* as Init, the port id of FAB_CTRL being the one reset leaves
InitFabric ==
    /\ Init
    /\ FIELD_GET(FAB_PORT_ID, mmio["FAB_CTRL"]) = 0

NextFabric ==
    \E p \in Procs :
        \/ \E attr \in FabricAttrs : fme_perf_event_init(p, attr)
        \/ fabric_event_init_lock(p)
        \/ fabric_event_init_check(p)
        \/ fabric_event_init_readq(p)
        \/ fabric_event_init_writeq(p)
        \/ fabric_event_init_exit(p)
        \/ fme_perf_event_destroy(p)
        \/ fabric_event_destroy_dec(p)
        \/ fabric_event_destroy_unlock(p)
        \/ p \in Starters /\ fme_perf_event_start(p)
        \/ fme_perf_event_start_set(p)
        \/ fabric_read_event_counter_readq(p)
        \/ fabric_read_event_counter_writeq(p)
        \/ fabric_read_event_counter_poll(p)
        \/ fabric_read_event_counter_cntr(p)

SpecFabric == InitFabric /\ [][NextFabric]_vars

(***************************************************************************)
(* Properties of the arbiter (checked under Spec).                         *)
(***************************************************************************)
LiveFabric(p) == event[p].live /\ event[p].event_base = FME_EVTYPE_FABRIC

LiveFabricSet == {p \in Procs : LiveFabric(p)}

\* the port filter of FAB_CTRL value v is programmed for working mode port_id
FilterFor(port_id, v) ==
    IF port_id = FME_PORTID_ROOT
    THEN FIELD_GET(FAB_PORT_FILTER, v) = FAB_PORT_FILTER_DISABLE
    ELSE /\ FIELD_GET(FAB_PORT_FILTER, v) = FAB_PORT_FILTER_ENABLE
         /\ FIELD_GET(FAB_PORT_ID, v) = port_id

\* C1: while fab_users > 0 no step changes fab_port_id, and after every step
\* the port of every live fabric event equals fab_port_id (so no two live
\* fabric events have different ports).
C1_ModeExclusion ==
    [][ /\ fab_users > 0 => fab_port_id' = fab_port_id
        /\ \A p \in Procs : LiveFabric(p)' => event'[p].config_base = fab_port_id'
      ]_vars

\* two fabric events are live at once
C1_Witness ==
    \E p, q \in Procs : p # q /\ LiveFabric(p) /\ LiveFabric(q) /\ fab_users = 2

\* C2: whenever the lock is free, fab_users is the number of live fabric
\* events: every successful open holds one slot until its close, and a failed
\* open (validation error or conflict) holds none.
C2_UsersCountLive ==
    fab_lock = 0 => fab_users = Cardinality(LiveFabricSet)

\* with the lock free: one live fabric event, and a caller whose open was
\* refused for a conflict
C2_Witness ==
    /\ fab_lock = 0
    /\ fab_users = 1
    /\ \E p, q \in Procs :
          /\ LiveFabric(p)
          /\ ~event[q].live /\ pc[q] = "idle"
          /\ call[q].ret = "-EOPNOTSUPP"

\* C3: an open that finds fab_users > 0 and another working mode ends with
\* -EOPNOTSUPP, and neither its test nor its exit changes fab_users,
\* fab_port_id or FAB_CTRL.
C3_ConflictNoChange ==
    [][ \A p \in Procs :
          /\ ( /\ pc[p] = "fab_init_check" /\ pc'[p] # pc[p]
               /\ fab_users > 0 /\ fab_port_id # event[p].config_base )
             => /\ call'[p].fab_ret = "-EOPNOTSUPP"
                /\ pc'[p] = "fab_init_exit"
                /\ UNCHANGED << fab_users, fab_port_id, mmio >>
          /\ ( /\ pc[p] = "fab_init_exit" /\ pc'[p] # pc[p]
               /\ call[p].fab_ret = "-EOPNOTSUPP" )
             => /\ call'[p].ret = "-EOPNOTSUPP"
                /\ ~event'[p].live
                /\ UNCHANGED << fab_users, fab_port_id, mmio >>
      ]_vars

\* an open was refused for a conflict while another event is live
C3_Witness ==
    \E p, q \in Procs :
        /\ p # q /\ LiveFabric(q)
        /\ pc[p] = "idle" /\ call[p].ret = "-EOPNOTSUPP"
        /\ event[p].config_base # event[q].config_base

\* C4: when an open of port B returns: if a live fabric event has another
\* port it returns -EOPNOTSUPP and the live events stay as they are; else it
\* returns 0, fab_users counts it with the live events of the same port,
\* fab_port_id is B and the port filter is programmed for B (disabled for
\* the overall mode, enabled with the port id for a port).
C4_OpenSequences ==
    [][ \A p \in Procs :
          (pc[p] = "fab_init_exit" /\ pc'[p] # pc[p]) =>
             LET B == event[p].config_base
                 Others == LiveFabricSet \ {p}
             IN  IF \E q \in Others : event[q].config_base # B
                 THEN /\ call'[p].ret = "-EOPNOTSUPP"
                      /\ \A q \in Others : event'[q] = event[q]
                      /\ fab_users' = Cardinality(Others)
                 ELSE /\ call'[p].ret = "0"
                      /\ LiveFabric(p)'
                      /\ fab_users' = Cardinality(Others) + 1
                      /\ fab_port_id' = B
                      /\ FilterFor(B, mmio'["FAB_CTRL"])
      ]_vars

\* an event of the overall mode was opened and closed, and an event on port 0
\* is live now with the filter enabled for port 0
C4_Witness ==
    \E p, q \in Procs :
        /\ p # q
        /\ LiveFabric(p) /\ event[p].config_base = 0 /\ pc[p] = "idle"
        /\ event[q] = NoEvent /\ pc[q] = "idle" /\ call[q].ret = "0"
        /\ CFG_GET(FME_EVTYPE_MASK, call[q].attr.config) = FME_EVTYPE_FABRIC
        /\ CFG_GET(FME_PORTID_MASK, call[q].attr.config) = FME_PORTID_ROOT
        /\ fab_users = 1 /\ fab_port_id = 0
        /\ FilterFor(0, mmio["FAB_CTRL"])

(***************************************************************************)
(* Properties of a session (checked under SpecSession).                    *)
(***************************************************************************)
\* the width of the counter field of an event type
FieldBits(event_type) ==
    CASE event_type = FME_EVTYPE_CACHE -> CACHE_CNTR_EVNT_CNTR.bits
      [] event_type = FME_EVTYPE_FABRIC -> FAB_CNTR_EVNT_CNTR.bits
      [] event_type = FME_EVTYPE_VTD -> VTD_CNTR_EVNT_CNTR.bits
      [] event_type = FME_EVTYPE_VTD_SIP -> VTD_SIP_CNTR_EVNT_CNTR.bits
      [] OTHER -> WordBits

\* the step in which fme_perf_event_update of p folds the value read into count
UpdateStep(p) == pc[p] = "update" /\ pc'[p] = "idle"

\* C5: an update with prev_count = X and a driver read of Y, both values of
\* the type's counter field, adds (Y - X) mod 2^(width of the field) to count.
C5_DeltaWidthMasked ==
    [][ \A p \in Procs :
          ( /\ UpdateStep(p) /\ hist[p].starts >= 1
            /\ event[p].event_base # FME_EVTYPE_BASIC
            /\ rd[p].count < 2 ^ FieldBits(event[p].event_base)
            /\ event[p].prev_count < 2 ^ FieldBits(event[p].event_base) ) =>
             event'[p].count =
                 U64(event[p].count
                     + ((rd[p].count - event[p].prev_count)
                           % (2 ^ FieldBits(event[p].event_base))))
      ]_vars

\* C6: after a start and one or more updates, none timed out and no value
\* read smaller than the one before, the count gained since the start is the
\* last value read minus the snapshot of the start.
C6_CountSinceStart ==
    \A p \in Procs :
        ( /\ pc[p] = "idle" /\ event[p].live
          /\ hist[p].starts >= 1 /\ hist[p].reads >= 1 /\ hist[p].clean )
        => U64(event[p].count - hist[p].base) = U64(hist[p].last - hist[p].s1)

\* the registers polled, by position in the driver
PollPcs == {"cache_poll", "fab_poll", "vtd_poll", "vtd_sip_poll"}

\* the code in the register polled at position at, registers being regs
PollTag(at, regs) ==
    CASE at = "cache_poll" -> FIELD_GET(CACHE_CNTR_EVNT, regs["CACHE_CNTR0"])
      [] at = "fab_poll" -> FIELD_GET(FAB_CNTR_EVNT, regs["FAB_CNTR"])
      [] at = "vtd_poll" -> FIELD_GET(VTD_CNTR_EVNT, regs["VTD_CNTR"])
      [] at = "vtd_sip_poll" -> FIELD_GET(VTD_SIP_CNTR_EVNT, regs["VTD_SIP_CNTR"])

\* C7: in every poll loop the time waited never exceeds PERF_TIMEOUT; an
\* iteration that finds another tag before the bound waits one unit more, at
\* the bound it ends the read with value 0; the handler that made the read
\* then returns with the event still live and the result of its open intact.
C7_PollTimeoutBounded ==
    [][ \A p \in Procs :
          /\ pc[p] \in PollPcs =>
                /\ rd[p].t <= PERF_TIMEOUT
                /\ (rd'[p] # rd[p] /\ PollTag(pc[p], mmio') # rd[p].event) =>
                      IF rd[p].t < PERF_TIMEOUT
                      THEN rd'[p].t = rd[p].t + 1 /\ pc'[p] = pc[p]
                      ELSE /\ pc'[p] = rd[p].op
                           /\ rd'[p].count = 0 /\ rd'[p].timeout
                           /\ event'[p] = event[p]
          /\ (pc[p] \in {"start", "update"} /\ rd[p].timeout /\ pc'[p] # pc[p]) =>
                /\ pc'[p] = "idle"
                /\ event'[p].live
                /\ call'[p].ret = "0"
      ]_vars

\* a read of the second-level IOMMU counter timed out inside an update
C7_Witness ==
    \E p \in Procs :
        /\ pc[p] = "update" /\ rd[p].timeout /\ rd[p].count = 0
        /\ event[p].live /\ event[p].event_base = FME_EVTYPE_VTD_SIP

\* C8: an update whose driver read timed out, after a start that recorded a
\* prev_count other than 0, leaves count as it was.
C8_TimeoutZeroDelta ==
    [][ \A p \in Procs :
          ( /\ UpdateStep(p) /\ rd[p].timeout
            /\ hist[p].starts >= 1 /\ event[p].prev_count # 0 )
          => event'[p].count = event[p].count
      ]_vars

(***************************************************************************)
(* Properties of open (checked under SpecOpen).                            *)
(***************************************************************************)
\* fme_perf_event_init of p has returned
Returned(p) == call[p].ret # "none"

\* the request passes the tests made before the configuration is decoded
FlagsOk(attr) == attr.type_ok /\ ~attr.sampling /\ ~attr.task /\ attr.cpu >= 0

ReqId(p) == CFG_GET(FME_EVENT_MASK, call[p].attr.config)
ReqType(p) == CFG_GET(FME_EVTYPE_MASK, call[p].attr.config)
ReqPort(p) == CFG_GET(FME_PORTID_MASK, call[p].attr.config)

\* the descriptors of the catalog as (type, index) and the one a pair names
Descriptors ==
    { << t, i >> : t \in 0..FME_EVTYPE_MAX, i \in 1..16 } \cap
    { ti \in (0..FME_EVTYPE_MAX) \X (1..16) :
          ti[2] <= Len(fme_perf_event_groups[ti[1] + 1].ev_attrs) }

Desc(ti) == fme_perf_event_groups[ti[1] + 1].ev_attrs[ti[2]]

\* the request of p names descriptor ti by id and type
Names(p, ti) == ReqId(p) = Desc(ti).event_id /\ ReqType(p) = Desc(ti).event_type

ValidPort(d, port) ==
    IF d.is_port_event THEN port < PERF_MAX_PORT_NUM ELSE port = FME_PORTID_ROOT

\* C9: an open whose request carries the id and type of a descriptor d and a
\* port valid for d's scope resolves to d itself and is not refused.
C9_ResolveRoundTrip ==
    \A p \in Procs :
        (Returned(p) /\ FlagsOk(call[p].attr)) =>
            \A ti \in Descriptors :
                (Names(p, ti) /\ ValidPort(Desc(ti), ReqPort(p))) =>
                    /\ ReqType(p) = ti[1]
                    /\ call[p].ev_attr = ti[2]
                    /\ call[p].ret = "0"

\* port 0 was given with the id of fabric event 3: the port event (12th of
\* the group) was found, not the overall event of the same id (4th)
C9_Witness ==
    /\ Returned(Caller) /\ call[Caller].ret = "0"
    /\ ReqType(Caller) = FME_EVTYPE_FABRIC /\ ReqId(Caller) = 3 /\ ReqPort(Caller) = 0
    /\ call[Caller].ev_attr = 12

\* C10 as stated: a request that names a port descriptor with a port >=
\* PERF_MAX_PORT_NUM other than FME_PORTID_ROOT is refused with -EINVAL, and
\* a request that names an overall descriptor with any port other than
\* FME_PORTID_ROOT is refused with -EINVAL.
C10_PortValidation ==
    \A p \in Procs :
        (Returned(p) /\ FlagsOk(call[p].attr)) =>
            \A ti \in Descriptors :
                Names(p, ti) =>
                    /\ ( /\ Desc(ti).is_port_event
                         /\ ReqPort(p) >= PERF_MAX_PORT_NUM
                         /\ ReqPort(p) # FME_PORTID_ROOT ) => call[p].ret = "-EINVAL"
                    /\ ( /\ ~Desc(ti).is_port_event
                         /\ ReqPort(p) # FME_PORTID_ROOT ) => call[p].ret = "-EINVAL"

\* a port descriptor of the same type has the id of descriptor ti
HasPortTwin(ti) ==
    \E tj \in Descriptors :
        /\ tj[1] = ti[1]
        /\ Desc(tj).event_id = Desc(ti).event_id
        /\ Desc(tj).is_port_event

\* C10 amended: as stated, except that a request naming an overall descriptor
\* with a port below PERF_MAX_PORT_NUM is refused only when no port
\* descriptor of the type has the same id.
C10_PortValidationAmended ==
    \A p \in Procs :
        (Returned(p) /\ FlagsOk(call[p].attr)) =>
            \A ti \in Descriptors :
                Names(p, ti) =>
                    /\ ( /\ Desc(ti).is_port_event
                         /\ ReqPort(p) >= PERF_MAX_PORT_NUM
                         /\ ReqPort(p) # FME_PORTID_ROOT ) => call[p].ret = "-EINVAL"
                    /\ ( /\ ~Desc(ti).is_port_event
                         /\ ReqPort(p) # FME_PORTID_ROOT
                         /\ ~(HasPortTwin(ti) /\ ReqPort(p) < PERF_MAX_PORT_NUM) )
                       => call[p].ret = "-EINVAL"

\* the id of a fabric event was given with port 1: the port descriptor was
\* found and the request refused for its port
C10_Witness ==
    /\ Returned(Caller) /\ call[Caller].ret = "-EINVAL"
    /\ ReqType(Caller) = FME_EVTYPE_FABRIC /\ ReqPort(Caller) = 1
    /\ call[Caller].ev_attr = 9

\* the request names no descriptor of the catalog with a port of its scope
Unknown(attr) ==
    LET event_id == CFG_GET(FME_EVENT_MASK, attr.config)
        event_type == CFG_GET(FME_EVTYPE_MASK, attr.config)
        port_id == CFG_GET(FME_PORTID_MASK, attr.config)
    IN  ~\E ti \in Descriptors :
            /\ Desc(ti).event_id = event_id /\ ti[1] = event_type
            /\ Desc(ti).is_port_event = (port_id # FME_PORTID_ROOT)
            /\ ValidPort(Desc(ti), port_id)

\* C11: an open refused for its flags (wrong pmu type, sampling, task scope,
\* no cpu) or for naming no descriptor returns an error in the same step, and
\* that step reads and writes no register, does not enter the type's
\* event_init, and leaves fab_users, fab_port_id and the lock as they were.
C11_RejectNoSideEffect ==
    [][ \A p \in Procs :
          ( /\ pc[p] = "idle" /\ call'[p] # call[p]
            /\ ~FlagsOk(call'[p].attr) \/ Unknown(call'[p].attr) ) =>
             /\ call'[p].ret \in {"-EINVAL", "-ENOENT"}
             /\ pc'[p] = "idle"
             /\ ~event'[p].live
             /\ UNCHANGED << mmio, rd, fab_users, fab_port_id, fab_lock, event >>
      ]_vars

\* a fabric request without a cpu was refused
C11_Witness ==
    /\ Returned(Caller) /\ call[Caller].ret = "-EINVAL"
    /\ call[Caller].attr.cpu < 0 /\ ~call[Caller].attr.sampling
    /\ ~call[Caller].attr.task /\ call[Caller].attr.type_ok
    /\ ReqType(Caller) = FME_EVTYPE_FABRIC /\ pc[Caller] = "idle"

(***************************************************************************)
(* Properties of the shared fabric block (checked under SpecFabric).       *)
(***************************************************************************)
\* inside the critical sections of fabric_event_init and fabric_event_destroy
LockedPcs ==
    {"fab_init_check", "fab_init_readq", "fab_init_writeq", "fab_init_exit",
     "fab_destroy_dec", "fab_destroy_unlock"}

\* inside fabric_read_event_counter
FabReadPcs == {"fab_ctrl_readq", "fab_ctrl_writeq", "fab_poll", "fab_cntr_readq"}

\* C12: a caller holds fab_lock exactly while it is inside the critical
\* section of fabric_event_init or of fabric_event_destroy; so no caller
\* inside a counter read or its poll holds the lock, and no step of a counter
\* read takes it.
C12_LockScope ==
    [][ \A p \in Procs :
          /\ (fab_lock' = p) <=> (pc'[p] \in LockedPcs)
          /\ pc'[p] \in FabReadPcs => fab_lock' # p
          /\ (pc[p] \in FabReadPcs /\ pc'[p] # pc[p]) => fab_lock' = fab_lock
      ]_vars

\* one caller waits in the poll while another is inside fabric_event_init
\* with the lock
C12_Witness ==
    \E p, q \in Procs :
        /\ pc[p] = "fab_poll" /\ rd[p].t > 0
        /\ pc[q] \in LockedPcs /\ fab_lock = q

(***************************************************************************)
(* Further properties of a session (checked under SpecSession).            *)
(***************************************************************************)
\* C13: the step in which an update (of read, stop or del) folds the value
\* read into count also stores that value in prev_count.
C13_SnapshotAdvance ==
    [][ \A p \in Procs :
          (UpdateStep(p) /\ hist[p].starts >= 1) =>
              event'[p].prev_count = rd[p].count
      ]_vars

(***************************************************************************)
(* Further properties of the arbiter (checked under Spec).                 *)
(***************************************************************************)
\* p takes a step of fme_perf_event_destroy / fabric_event_destroy
CloseStep(p) ==
    \/ pc[p] = "idle" /\ pc'[p] = "fab_destroy_dec"
    \/ pc[p] \in {"fab_destroy_dec", "fab_destroy_unlock"} /\ pc'[p] # pc[p]

\* C14: the close of a fabric event decrements fab_users by one while it
\* holds the lock and does nothing else: fab_port_id stays as it is, also
\* when fab_users reaches 0, and no register is read or written.
C14_CloseFrame ==
    [][ \A p \in Procs :
          CloseStep(p) =>
              /\ fab_port_id' = fab_port_id
              /\ mmio' = mmio
              /\ rd' = rd
              /\ IF pc[p] = "fab_destroy_dec"
                 THEN fab_lock = p /\ fab_users' = fab_users - 1
                 ELSE fab_users' = fab_users
      ]_vars

\* the last event of port 0 is being closed: no user is left and the working
\* mode is still port 0
C14_Witness ==
    \E p \in Procs :
        /\ pc[p] = "fab_destroy_unlock" /\ fab_users = 0
        /\ fab_port_id = 0 /\ call[p].ret = "0" /\ ReqPort(p) = 0

\* the registers other than FAB_CTRL are the same after the step
OtherRegsSame == \A r \in DOMAIN mmio \ {"FAB_CTRL"} : mmio'[r] = mmio[r]

\* inside fabric_event_init
FabInitPcs ==
    {"fab_init_lock", "fab_init_check", "fab_init_readq", "fab_init_writeq",
     "fab_init_exit"}

\* C15: the write of a fabric open that changes the working mode changes in
\* FAB_CTRL at most the port filter and the port id, the event code and the
\* remaining bits stay; a fabric open whose port is the working mode already
\* goes to its exit and writes no register; the write of a fabric counter
\* read changes at most the event code, the port filter, the port id and the
\* remaining bits stay.
C15_FieldIsolation ==
    [][ \A p \in Procs :
          /\ (pc[p] = "fab_init_writeq" /\ pc'[p] # pc[p]) =>
                /\ mmio'["FAB_CTRL"].evnt = mmio["FAB_CTRL"].evnt
                /\ mmio'["FAB_CTRL"].rest = mmio["FAB_CTRL"].rest
                /\ OtherRegsSame
          /\ (pc[p] = "fab_init_check" /\ pc'[p] # pc[p]
                  /\ fab_port_id = event[p].config_base) =>
                pc'[p] = "fab_init_exit"
          /\ (pc[p] \in FabInitPcs \ {"fab_init_writeq"} /\ pc'[p] # pc[p]) =>
                mmio' = mmio
          /\ (pc[p] = "fab_ctrl_writeq" /\ pc'[p] # pc[p]) =>
                /\ mmio'["FAB_CTRL"].filter = mmio["FAB_CTRL"].filter
                /\ mmio'["FAB_CTRL"].port_id = mmio["FAB_CTRL"].port_id
                /\ mmio'["FAB_CTRL"].rest = mmio["FAB_CTRL"].rest
                /\ mmio'["FAB_CTRL"].evnt = rd[p].event
                /\ OtherRegsSame
      ]_vars

\* an open has changed the working mode to port 0 after event code 1 had
\* been selected by a read: the code and the remaining bits are still there
C15_Witness ==
    \E p \in Procs :
        /\ pc[p] = "fab_init_exit" /\ call[p].fab_ret = "0"
        /\ event[p].config_base = 0 /\ fab_port_id = 0 /\ fab_users = 1
        /\ FilterFor(0, mmio["FAB_CTRL"])
        /\ mmio["FAB_CTRL"].evnt = 1 /\ mmio["FAB_CTRL"].rest = 1

\* C16: start (and add with PERF_EF_START, which is start) enters
\* read_counter once, and when that has returned stores the value in
\* prev_count and is done; no step of it changes count, another field of the
\* event, or the arbiter.  (add without the flag is a step that changes
\* nothing at all.)
C16_StartFrame ==
    [][ \A p \in Procs :
          /\ (pc[p] = "idle" /\ rd'[p].op = "start") =>
                /\ pc'[p] = read_counter_entry(event[p].event_base)
                /\ event'[p] = event[p]
          /\ (rd[p].op = "start" /\ pc[p] # "start") =>
                /\ event'[p] = event[p]
                /\ rd'[p].op = "start"
                /\ pc'[p] \notin {"idle", "update"}
          /\ (pc[p] = "start" /\ pc'[p] # pc[p]) =>
                /\ pc'[p] = "idle"
                /\ event'[p] = [event[p] EXCEPT !.prev_count = rd[p].count]
          /\ (rd[p].op = "start" \/ rd'[p].op = "start") =>
                UNCHANGED << fab_users, fab_port_id, fab_lock >>
      ]_vars

\* a fabric event that had counted already was started: its snapshot is the
\* value read, count and the arbiter are what they were
C16_Witness ==
    \E p \in Procs :
        /\ pc[p] = "idle" /\ event[p].live
        /\ hist[p].starts = 1 /\ hist[p].reads = 0
        /\ event[p].event_base = FME_EVTYPE_FABRIC
        /\ event[p].prev_count # 0 /\ event[p].count # 0 /\ fab_users = 1

\* p is inside start, stop, del or read before or after the step
InHandler(p) == rd[p].op # "none" \/ rd'[p].op # "none"

\* C17: no step of start, stop, del or read enters the type's event_destroy
\* or changes fab_users, and the event is live after it; fab_users changes
\* only in the steps of fabric_event_init and fabric_event_destroy that count,
\* so it stays the same for as long as a fabric event stays open.
C17_HandlersKeepSlot ==
    [][ /\ \A p \in Procs :
              /\ (event[p].live /\ InHandler(p)) =>
                    /\ fab_users' = fab_users
                    /\ event'[p].live
                    /\ pc'[p] \notin {"fab_destroy_dec", "fab_destroy_unlock"}
              /\ (LiveFabric(p) /\ LiveFabric(p)') =>
                    fab_users' = fab_users
        /\ fab_users' # fab_users =>
              \E p \in Procs : pc[p] \in {"fab_init_check", "fab_destroy_dec"}
      ]_vars

\* a fabric event was started and then read MaxReads times: it holds its
\* one slot
C17_Witness ==
    \E p \in Procs :
        /\ pc[p] = "idle" /\ LiveFabric(p)
        /\ hist[p].starts = 1 /\ hist[p].reads = MaxReads
        /\ fab_users = 1

\* the descriptor the open of p resolved to
Resolved(p) == fme_perf_event_groups[event[p].event_base + 1].ev_attrs[call[p].ev_attr]

\* C18: cache_read_event_counter writes CACHE_CTRL with the event id as event
\* code and the descriptor's data as channel, its other bits and the other
\* registers as they were; it leaves the poll for the reads of the counts
\* only when the code in CACHE_CNTR0 is the event id, and then returns the
\* sum of the count fields of CACHE_CNTR0 and CACHE_CNTR1.
C18_CacheReadSum ==
    [][ \A p \in Procs :
          /\ (pc[p] = "cache_ctrl_writeq" /\ pc'[p] # pc[p]) =>
                /\ mmio'["CACHE_CTRL"].evnt = event[p].idx
                /\ mmio'["CACHE_CTRL"].channel = Resolved(p).data
                /\ mmio'["CACHE_CTRL"].rest = mmio["CACHE_CTRL"].rest
                /\ \A r \in DOMAIN mmio \ {"CACHE_CTRL"} : mmio'[r] = mmio[r]
          /\ (pc[p] = "cache_poll" /\ pc'[p] = "cache_cntr0_readq") =>
                FIELD_GET(CACHE_CNTR_EVNT, mmio'["CACHE_CNTR0"]) = event[p].idx
          /\ (pc[p] = "cache_cntr1_readq" /\ pc'[p] # pc[p]) =>
                /\ pc'[p] = rd[p].op
                /\ ~rd'[p].timeout
                /\ rd'[p].count =
                       U64(FIELD_GET(CACHE_CNTR_EVNT_CNTR, mmio'["CACHE_CNTR0"])
                           + FIELD_GET(CACHE_CNTR_EVNT_CNTR, mmio'["CACHE_CNTR1"]))
                /\ mmio'["CACHE_CTRL"].evnt = event[p].idx
                /\ mmio'["CACHE_CTRL"].channel = Resolved(p).data
      ]_vars

\* a read of the cache event of the write channel returned the sum of two
\* counts that are both not 0
C18_Witness ==
    \E p \in Procs :
        /\ pc[p] = "update" /\ ~rd[p].timeout
        /\ event[p].event_base = FME_EVTYPE_CACHE
        /\ mmio["CACHE_CNTR0"].cntr = 2 ^ Cntr48Bits - 1 /\ mmio["CACHE_CNTR1"].cntr = 1
        /\ rd[p].count = 2 ^ Cntr48Bits
        /\ mmio["CACHE_CTRL"].channel = CACHE_CHANNEL_WR /\ mmio["CACHE_CTRL"].rest = 1

(***************************************************************************)
(* Further properties of open and of the catalog (checked under SpecOpen). *)
(***************************************************************************)
\* descriptors ti and tj have the same type, id and scope
SameKey(ti, tj) ==
    /\ ti[1] = tj[1]
    /\ Desc(ti).event_id = Desc(tj).event_id
    /\ Desc(ti).is_port_event = Desc(tj).is_port_event

\* C19: no two descriptors of a type have the same id and the same scope,
\* while each of the 8 fabric ids has an overall and a port descriptor; so
\* the descriptor an open resolves to is the only one of its type with the
\* id and the scope requested.
C19_CatalogUnique ==
    /\ \A ti, tj \in Descriptors : SameKey(ti, tj) => ti = tj
    /\ \A ti \in Descriptors : Desc(ti).event_type = ti[1]
    /\ \A ti \in Descriptors : ti[1] = FME_EVTYPE_FABRIC => HasPortTwin(ti)
    /\ \A p \in Procs :
          (Returned(p) /\ call[p].ev_attr # NULL) =>
              \A ti \in Descriptors :
                  ( /\ ti[1] = ReqType(p) /\ Desc(ti).event_id = ReqId(p)
                    /\ Desc(ti).is_port_event = (ReqPort(p) # FME_PORTID_ROOT) )
                  => ti[2] = call[p].ev_attr

\* the last overall fabric event was opened: of the two descriptors with its
\* id the overall one was found
C19_Witness ==
    /\ Returned(Caller) /\ call[Caller].ret = "0"
    /\ ReqType(Caller) = FME_EVTYPE_FABRIC /\ ReqPort(Caller) = FME_PORTID_ROOT
    /\ ReqId(Caller) = Len(fme_perf_fab_events) \div 2 - 1
    /\ call[Caller].ev_attr = Len(fme_perf_fab_events) \div 2

(***************************************************************************)
(* Further properties of the shared fabric block (checked under            *)
(* SpecFabric).                                                            *)
(***************************************************************************)
\* C20: whenever the lock is free, the port filter of FAB_CTRL is disabled
\* if fab_port_id is FME_PORTID_ROOT and else enabled with fab_port_id as its
\* port id; and the write of a counter read, made without the lock, leaves
\* the port filter and the port id of the register as they are.
C20_FilterAgreesWithMode ==
    [][ /\ fab_lock' = 0 => FilterFor(fab_port_id', mmio'["FAB_CTRL"])
        /\ \A p \in Procs :
              (pc[p] = "fab_ctrl_writeq" /\ pc'[p] # pc[p]) =>
                  /\ FIELD_GET(FAB_PORT_FILTER, mmio'["FAB_CTRL"])
                        = FIELD_GET(FAB_PORT_FILTER, mmio["FAB_CTRL"])
                  /\ FIELD_GET(FAB_PORT_ID, mmio'["FAB_CTRL"])
                        = FIELD_GET(FAB_PORT_ID, mmio["FAB_CTRL"])
      ]_vars

\* an event of port 0 is being read, after an overall event of another
\* caller has been opened and closed: the filter is enabled for port 0
C20_Witness ==
    \E p, q \in Procs :
        /\ p # q /\ pc[p] = "fab_poll" /\ event[p].config_base = 0
        /\ fab_lock = 0 /\ fab_port_id = 0 /\ FilterFor(0, mmio["FAB_CTRL"])
        /\ pc[q] = "idle" /\ ~event[q].live
        /\ call[q].ret = "0" /\ ReqPort(q) = FME_PORTID_ROOT

(***************************************************************************)
(* Properties of concurrent fabric reads                                   *)
(***************************************************************************)
\* the return of fabric_read_event_counter from its last readq of FAB_CNTR
FabCntrStep(p) == pc[p] = "fab_cntr_readq" /\ pc'[p] # pc[p]

\* another live fabric session in the same working mode with another event
\* code is inside a counter read of its own
ConcurrentReader(p) ==
    \E q \in Procs \ {p} :
        /\ LiveFabric(p) /\ LiveFabric(q)
        /\ event[q].config_base = event[p].config_base
        /\ event[q].idx # event[p].idx
        /\ pc[q] \in FabReadPcs

\* C21: when two live fabric sessions in the same mode with different event
\* codes read concurrently, a read that does not time out returns the count
\* of a FAB_CNTR value whose event code is the one the call requested.  The
\* device is taken at its best: the value it presents carries the code that
\* is selected in FAB_CTRL at that moment.
C21_ReadReturnsRequested ==
    [][ \A p \in Procs :
          ( /\ FabCntrStep(p)
            /\ ConcurrentReader(p)
            /\ FIELD_GET(FAB_CNTR_EVNT, mmio'["FAB_CNTR"]) =
                   FIELD_GET(FAB_CTRL_EVNT, mmio["FAB_CTRL"]) )
          => /\ ~rd'[p].timeout
             /\ rd'[p].count = FIELD_GET(FAB_CNTR_EVNT_CNTR, mmio'["FAB_CNTR"])
             /\ FIELD_GET(FAB_CNTR_EVNT, mmio'["FAB_CNTR"]) = rd[p].event ]_vars

(***************************************************************************)
(* Specification of the arbiter under fair scheduling.  The close is taken *)
(* with the wait for the lock as a step of its own, so that a close that   *)
(* has been called and has not got the lock yet is a state.                *)
(***************************************************************************)
\* fme_perf_event_destroy up to the spin_lock of fabric_event_destroy
fme_perf_event_destroy_call(p) ==
    /\ pc[p] = "idle"
    /\ perf_core_may_destroy(p)
    /\ IF "event_destroy" \in get_event_ops(event[p].event_base)
       THEN /\ pc' = [pc EXCEPT ![p] = "fab_destroy_lock"]
            /\ event' = [event EXCEPT ![p].live = FALSE]
       ELSE /\ event' = [event EXCEPT ![p] = NoEvent]
            /\ pc' = pc
    /\ UNCHANGED << fab_users, fab_port_id, fab_lock, mmio, call, rd, hist >>

\* fabric_event_destroy: spin_lock(&priv->fab_lock)
fabric_event_destroy_lock(p) ==
    /\ pc[p] = "fab_destroy_lock"
    /\ fab_lock = 0
    /\ fab_lock' = p
    /\ pc' = [pc EXCEPT ![p] = "fab_destroy_dec"]
    /\ UNCHANGED << fab_users, fab_port_id, mmio, event, call, rd, hist >>

\* requests of the callers: a fabric event in overall mode, one on port 0
\* and a cache event
LiveAttrs ==
    { Attr(Config(0, FME_EVTYPE_FABRIC, FME_PORTID_ROOT)),
      Attr(Config(0, FME_EVTYPE_FABRIC, 0)),
      Attr(Config(0, FME_EVTYPE_CACHE, FME_PORTID_ROOT)) }

\* inside fabric_event_init or fabric_event_destroy, the wait for the lock
\* included
ArbiterPcs == LockedPcs \cup {"fab_init_lock", "fab_destroy_lock"}

\* a step of p between spin_lock and the return after spin_unlock
CriticalStep(p) ==
    \/ fabric_event_init_check(p)
    \/ fabric_event_init_readq(p)
    \/ fabric_event_init_writeq(p)
    \/ fabric_event_init_exit(p)
    \/ fabric_event_destroy_dec(p)
    \/ fabric_event_destroy_unlock(p)

NextLive ==
    \E p \in Procs :
        \/ \E attr \in LiveAttrs : fme_perf_event_init(p, attr)
        \/ fabric_event_init_lock(p)
        \/ fme_perf_event_destroy_call(p)
        \/ fabric_event_destroy_lock(p)
        \/ CriticalStep(p)

\* a step in which p alone moves
Moves(p) ==
    \E at \in ArbiterPcs \cup {"idle"} :
        at # pc[p] /\ pc' = [pc EXCEPT ![p] = at]

\* fair scheduling: the holder of the spinlock runs on (it neither sleeps
\* nor is preempted), and spin_lock serves every waiter in the end
FairScheduling ==
    \A p \in Procs :
        /\ WF_pc(Moves(p) /\ CriticalStep(p))
        /\ SF_pc(Moves(p) /\ fabric_event_init_lock(p))
        /\ SF_pc(Moves(p) /\ fabric_event_destroy_lock(p))

SpecLive == Init /\ [][NextLive]_vars /\ FairScheduling

(***************************************************************************)
(* Properties of the arbiter under fair scheduling (checked under          *)
(* SpecLive).                                                              *)
(***************************************************************************)
\* C22: every exit path of fabric_event_init (refusal, mode matches, mode
\* reprogrammed) and of fabric_event_destroy releases the lock: under fair
\* scheduling every open and every close that has been called returns, and
\* the lock is free whenever no caller is inside an open or a close.
C22_LockLiveness ==
    /\ \A p \in Procs :
          (pc[p] = "fab_init_lock") ~> (pc[p] = "idle" /\ Returned(p))
    /\ \A p \in Procs :
          (pc[p] = "fab_destroy_lock") ~> (pc[p] = "idle" /\ event[p] = NoEvent)
    /\ []((\A p \in Procs : pc[p] \notin ArbiterPcs) => fab_lock = 0)

\* a close waits for the lock while the holder is on the refusal path of an
\* open
C22_Witness ==
    \E p, q \in Procs :
        /\ pc[p] = "fab_destroy_lock"
        /\ fab_lock = q /\ pc[q] = "fab_init_exit"
        /\ call[q].fab_ret = "-EOPNOTSUPP"

(***************************************************************************)
(* Properties of the port of a session (checked under SpecOpen).           *)
(***************************************************************************)
\* C23: the port stored in a session whose open succeeded is
\* FME_PORTID_ROOT exactly when the descriptor found is an overall event and
\* is below PERF_MAX_PORT_NUM exactly when it is a port event; so the port
\* fabric_event_init is called with is FME_PORTID_ROOT or a port below
\* PERF_MAX_PORT_NUM, which the FAB_PORT_ID field holds unchanged.
C23_ScopeValidPort ==
    \A p \in Procs :
        LET port == event[p].config_base
        IN  /\ event[p].live =>
                 /\ (port = FME_PORTID_ROOT) <=> ~Resolved(p).is_port_event
                 /\ (port < PERF_MAX_PORT_NUM) <=> Resolved(p).is_port_event
            /\ pc[p] \in FabInitPcs =>
                 \/ port = FME_PORTID_ROOT
                 \/ port < PERF_MAX_PORT_NUM /\ FIELD_PREP(FAB_PORT_ID, port) = port

\* a fabric port event was opened on port 0, after requests with the ports
\* 1 and 2 were made, and the filter is programmed for it
C23_Witness ==
    /\ event[Caller].live /\ event[Caller].event_base = FME_EVTYPE_FABRIC
    /\ Resolved(Caller).is_port_event /\ event[Caller].config_base = 0
    /\ fab_port_id = 0
    /\ FIELD_GET(FAB_PORT_FILTER, mmio["FAB_CTRL"]) = FAB_PORT_FILTER_ENABLE

(***************************************************************************)
(* Specification of the dispatch: one caller opens events of the first and *)
(* of the last known type and of types beyond the table, and runs the      *)
(* handlers on the sessions it gets.                                       *)
(***************************************************************************)
\* types beyond fme_perf_event_groups that fit the type field
UnknownTypes == (FME_EVTYPE_MAX + 1)..15

DispatchAttrs ==
    { Attr(Config(BASIC_EVNT_CLK, FME_EVTYPE_BASIC, FME_PORTID_ROOT)),
      Attr(Config(0, FME_EVTYPE_VTD_SIP, FME_PORTID_ROOT)),
      Attr(Config(0, FME_EVTYPE_MAX + 1, FME_PORTID_ROOT)),
      Attr(Config(0, 15, FME_PORTID_ROOT)),
      Attr(Config(0, 15, 0)) }

NextDispatch ==
    \/ \E attr \in DispatchAttrs : fme_perf_event_init(Caller, attr)
    \/ fme_perf_event_destroy(Caller)
    \/ \E ef_start \in BOOLEAN : fme_perf_event_add(Caller, ef_start)
    \/ fme_perf_event_start(Caller)
    \/ fme_perf_event_start_set(Caller)
    \/ fme_perf_event_stop(Caller)
    \/ fme_perf_event_del(Caller)
    \/ fme_perf_event_read(Caller)
    \/ fme_perf_event_update_add(Caller)
    \/ basic_read_event_counter(Caller)
    \/ vtd_sip_read_event_counter_readq(Caller)
    \/ vtd_sip_read_event_counter_writeq(Caller)
    \/ vtd_sip_read_event_counter_poll(Caller)
    \/ vtd_sip_read_event_counter_cntr(Caller)

SpecDispatch == InitOpen /\ [][NextDispatch]_vars

(***************************************************************************)
(* Properties of the dispatch (checked under SpecDispatch).                *)
(***************************************************************************)
\* the request of p names type t
RequestsType(c, t) ==
    \E id \in OpenIds, port \in OpenPorts : c.attr.config = Config(id, t, port)

\* fme_perf_event_init returns to p
OpenReturn(p) == pc[p] = "idle" /\ ~event[p].live /\ call'[p] # call[p]

\* a step in which p looks up the callbacks of a type: an open that has
\* passed the tests, the entry of start or of fme_perf_event_update, and the
\* destroy callback
OpsLookup(p) ==
    \/ pc[p] = "idle" /\ ~event[p].live /\ event'[p] # event[p]
    \/ pc[p] = "idle" /\ rd[p].op = "none" /\ rd'[p].op # "none"
    \/ pc[p] = "idle" /\ event[p].live /\ ~event'[p].live

\* the type get_event_ops is called with in such a step
OpsLookupType(p) ==
    IF event[p].live THEN event[p].event_base ELSE event'[p].event_base

\* C24: fme_perf_event_groups is never indexed with a type above
\* FME_EVTYPE_MAX.  An open whose type is 5..15 is refused by get_event_attr
\* before the callbacks are looked up: nothing but the return value changes.
\* Every lookup, in the open and in start, stop, read, del and destroy, is
\* made with a type in 0..FME_EVTYPE_MAX, the type the session was opened
\* with.
C24_DispatchInRange ==
    [][ \A p \in Procs :
          /\ \A t \in UnknownTypes :
                (OpenReturn(p) /\ RequestsType(call'[p], t)) =>
                    /\ call'[p].ret = "-EINVAL"
                    /\ call'[p].ev_attr = NULL
                    /\ ~OpsLookup(p)
                    /\ UNCHANGED << event, pc, rd, mmio, fab_users, fab_port_id >>
          /\ OpsLookup(p) =>
                /\ OpsLookupType(p) \in 0..FME_EVTYPE_MAX
                /\ RequestsType(call'[p], OpsLookupType(p))
      ]_vars

\* a session of the last known type was read and closed, and then an open
\* of type 15 was refused
C24_Witness ==
    /\ pc[Caller] = "idle" /\ ~event[Caller].live
    /\ hist[Caller].reads > 0
    /\ RequestsType(call[Caller], 15)
    /\ call[Caller].ret = "-EINVAL"

====
